---------------------------- MODULE Spec2Model ----------------------------
(***************************************************************************)
(* Model of cmd/skopeo/sync.go: the inventory planner (imagesToCopy and    *)
(* its three enumerators), the destination resolver                        *)
(* (destinationReference) and the sync executor (syncOptions.run).         *)
(*                                                                         *)
(* Strings are sequences of one-character strings, so that the string and  *)
(* path functions the code calls (strings.TrimPrefix, strings.Split,       *)
(* path.Base, path.Join, filepath.Dir, fmt.Sprintf) are computed character *)
(* by character, as the Go library computes them.                          *)
(***************************************************************************)
EXTENDS Integers, Sequences, FiniteSets, TLC

(***************************************************************************)
(* Bounds of the model.                                                    *)
(***************************************************************************)
\* Number of directories below the root of a walked source tree.
MaxDirs == 2
\* Length of a tag list returned by a registry.
MaxTags == 2
\* Length of an explicit tag list of a manifest image.
MaxList == 2

(***************************************************************************)
(* Strings.                                                                *)
(***************************************************************************)
\* The characters in byte order (sort.Strings in filepath.Walk's
\* readDirNames orders directory entries bytewise).
Alphabet ==
    << "(", "-", ".", "/", "0", "1", "2", "3", "4", "5", "6", "7", "8", "9",
       ":", "^", "_", "a", "b", "c", "d", "e", "f", "h", "i", "j", "k", "l",
       "m", "n", "o", "r", "s", "t", "v", "y", "z" >>

CharRank(c) == CHOOSE k \in 1..Len(Alphabet) : Alphabet[k] = c

Digits == {"0", "1", "2", "3", "4", "5", "6", "7", "8", "9"}

Letters == {"a", "b", "c", "d", "e", "f", "h", "i", "j", "k", "l", "m", "n",
            "o", "r", "s", "t", "v", "y", "z"}

\* s < t in bytewise lexical order
RECURSIVE StrLess(_, _)
StrLess(s, t) ==
    IF t = << >> THEN FALSE
    ELSE IF s = << >> THEN TRUE
    ELSE IF Head(s) = Head(t) THEN StrLess(Tail(s), Tail(t))
    ELSE CharRank(Head(s)) < CharRank(Head(t))

HasPrefix(s, prefix) ==
    /\ Len(prefix) <= Len(s)
    /\ SubSeq(s, 1, Len(prefix)) = prefix

\* strings.TrimPrefix: s without the leading prefix; s unchanged when it
\* does not start with prefix.
TrimPrefix(s, prefix) ==
    IF HasPrefix(s, prefix) THEN SubSeq(s, Len(prefix) + 1, Len(s)) ELSE s

Contains(s, c) == \E k \in 1..Len(s) : s[k] = c

\* index of the first / last occurrence of c in s, 0 when there is none
IndexOf(s, c) ==
    IF Contains(s, c) THEN CHOOSE k \in 1..Len(s) :
                               s[k] = c /\ \A m \in 1..(k - 1) : s[m] # c
    ELSE 0

LastIndexOf(s, c) ==
    IF Contains(s, c) THEN CHOOSE k \in 1..Len(s) :
                               s[k] = c /\ \A m \in (k + 1)..Len(s) : s[m] # c
    ELSE 0

\* strings.Split(s, sep) for a one-character separator: the pieces between
\* the separators, empty pieces included.
RECURSIVE Split(_, _)
Split(s, sep) ==
    IF ~Contains(s, sep) THEN << s >>
    ELSE LET k == IndexOf(s, sep)
         IN  << SubSeq(s, 1, k - 1) >> \o Split(SubSeq(s, k + 1, Len(s)), sep)

\* strings.Join(parts, sep)
RECURSIVE JoinWith(_, _)
JoinWith(parts, sep) ==
    IF parts = << >> THEN << >>
    ELSE IF Len(parts) = 1 THEN parts[1]
    ELSE parts[1] \o sep \o JoinWith(Tail(parts), sep)

Range(seq) == {seq[k] : k \in 1..Len(seq)}

\* strconv: the decimal digits of a natural number
RECURSIVE Decimal(_)
Decimal(n) ==
    IF n < 10 THEN << Alphabet[CharRank("0") + n] >>
    ELSE Decimal(n \div 10) \o << Alphabet[CharRank("0") + (n % 10)] >>

(***************************************************************************)
(* Paths (package path and, on the slash-separated platforms skopeo sync   *)
(* runs on, package path/filepath).                                        *)
(***************************************************************************)
\* The lexical processing of path.Clean on the elements of a path: "." and
\* empty elements are dropped, ".." removes the element before it (at the
\* root it is dropped, in a relative path it is kept when nothing precedes).
RECURSIVE CleanElems(_, _, _)
CleanElems(elems, acc, rooted) ==
    IF elems = << >> THEN acc
    ELSE LET e == Head(elems)
             rest == Tail(elems)
         IN  IF e = << >> \/ e = << "." >> THEN CleanElems(rest, acc, rooted)
             ELSE IF e = << ".", "." >>
                  THEN IF acc # << >> /\ acc[Len(acc)] # << ".", "." >>
                       THEN CleanElems(rest, SubSeq(acc, 1, Len(acc) - 1), rooted)
                       ELSE IF rooted THEN CleanElems(rest, acc, rooted)
                       ELSE CleanElems(rest, Append(acc, e), rooted)
             ELSE CleanElems(rest, Append(acc, e), rooted)

\* path.Clean
Clean(p) ==
    IF p = << >> THEN << "." >>
    ELSE LET rooted == p[1] = "/"
             elems == CleanElems(Split(p, "/"), << >>, rooted)
             body == JoinWith(elems, << "/" >>)
         IN  IF rooted THEN << "/" >> \o body
             ELSE IF body = << >> THEN << "." >>
             ELSE body

\* s without its trailing slashes
RECURSIVE StripTrailingSlashes(_)
StripTrailingSlashes(s) ==
    IF s # << >> /\ s[Len(s)] = "/"
    THEN StripTrailingSlashes(SubSeq(s, 1, Len(s) - 1))
    ELSE s

\* path.Base: the last element of the path; "." for the empty path and "/"
\* for a path of slashes only.
Base(p) ==
    IF p = << >> THEN << "." >>
    ELSE LET s == StripTrailingSlashes(p)
             t == SubSeq(s, LastIndexOf(s, "/") + 1, Len(s))
         IN  IF t = << >> THEN << "/" >> ELSE t

\* filepath.Dir: all but the last element of the path, cleaned
Dir(p) == Clean(SubSeq(p, 1, LastIndexOf(p, "/")))

\* path.Join of two elements: empty elements are ignored, the result is
\* cleaned; the empty string when both are empty.
PathJoin(a, b) ==
    IF a = << >> /\ b = << >> THEN << >>
    ELSE IF a = << >> THEN Clean(b)
    ELSE IF b = << >> THEN Clean(a)
    ELSE Clean(a \o << "/" >> \o b)

(***************************************************************************)
(* Image references.  A reference is [transport, name]: for the docker     *)
(* transport name is DockerReference().String(), the normalized            *)
(* domain/path:tag; for the dir transport it is StringWithinTransport(),   *)
(* the path as it was given.                                               *)
(***************************************************************************)
AlphaNum == Letters \cup Digits

AllIn(s, chars) == \A k \in 1..Len(s) : s[k] \in chars

\* reference grammar: a domain-component, alphanumerics with '.' and '-'
\* inside
ValidHost(host) ==
    /\ host # << >>
    /\ AllIn(host, AlphaNum \cup {".", "-"})
    /\ host[1] \in AlphaNum
    /\ host[Len(host)] \in AlphaNum

\* reference grammar: port-number
ValidPort(port) == port # << >> /\ AllIn(port, Digits)

ValidDomainParts(parts) ==
    /\ Len(parts) <= 2
    /\ ValidHost(parts[1])
    /\ Len(parts) = 2 => ValidPort(parts[2])

\* reference grammar: domain-component ('.' domain-component)* [':' port]
ValidDomain(d) == ValidDomainParts(Split(d, ":"))

\* reference grammar: path-component, alphanumerics joined by separators
ValidComponent(c) ==
    /\ c # << >>
    /\ AllIn(c, AlphaNum \cup {".", "_", "-"})
    /\ c[1] \in AlphaNum
    /\ c[Len(c)] \in AlphaNum

ValidComponents(components) ==
    \A k \in 1..Len(components) : ValidComponent(components[k])

\* reference grammar: path-component ('/' path-component)*
ValidRemotePath(p) == ValidComponents(Split(p, "/"))

\* reference grammar: tag is [\w][\w.-]{0,127}
ValidTag(t) ==
    /\ t # << >>
    /\ Len(t) <= 128
    /\ t[1] \in AlphaNum \cup {"_"}
    /\ AllIn(t, AlphaNum \cup {"_", ".", "-"})

DockerIO == << "d", "o", "c", "k", "e", "r", ".", "i", "o" >>

\* splitDockerDomain: what precedes the first '/' (at index i, 0 for none)
\* is the domain when it holds a '.' or a ':' or is "localhost"
HasDomain(s, i) ==
    /\ i # 0
    /\ \/ Contains(SubSeq(s, 1, i - 1), ".")
       \/ Contains(SubSeq(s, 1, i - 1), ":")
       \/ SubSeq(s, 1, i - 1) = << "l", "o", "c", "a", "l", "h", "o", "s", "t" >>

\* splitDockerDomain: the remainder of a docker.io name of one component is
\* put under library/
Remainder(domain, rest) ==
    IF domain = DockerIO /\ ~Contains(rest, "/")
    THEN << "l", "i", "b", "r", "a", "r", "y", "/" >> \o rest
    ELSE rest

\* the name of domain and remainder, the tag being what follows the first
\* ':' of the remainder (at index sep, 0 for none): [ok, domain, path, tag]
NamedAt(domain, remainder, sep) ==
    IF sep = 0
    THEN [ok |-> ValidDomain(domain) /\ ValidRemotePath(remainder),
          domain |-> domain, path |-> remainder, tag |-> << >>]
    ELSE [ok |-> /\ ValidDomain(domain)
                 /\ ValidRemotePath(SubSeq(remainder, 1, sep - 1))
                 /\ ValidTag(SubSeq(remainder, sep + 1, Len(remainder))),
          domain |-> domain,
          path |-> SubSeq(remainder, 1, sep - 1),
          tag |-> SubSeq(remainder, sep + 1, Len(remainder))]

Named(domain, remainder) == NamedAt(domain, remainder, IndexOf(remainder, ":"))

NormalizedNamedAt(s, i) ==
    IF HasDomain(s, i)
    THEN Named(SubSeq(s, 1, i - 1),
               Remainder(SubSeq(s, 1, i - 1), SubSeq(s, i + 1, Len(s))))
    ELSE Named(DockerIO, Remainder(DockerIO, s))

\* reference.ParseNormalizedNamed: [ok, domain, path, tag], tag << >> for
\* a name without a tag
ParseNormalizedNamed(s) == NormalizedNamedAt(s, IndexOf(s, "/"))

NoReference == [ok |-> FALSE, ref |-> [transport |-> "docker", name |-> << >>]]

\* docker.NewReference of reference.TagNameOnly: a name without a tag gets
\* the tag "latest"
TaggedReference(named) ==
    IF ~named.ok THEN NoReference
    ELSE [ok |-> TRUE,
          ref |-> [transport |-> "docker",
                   name |-> named.domain \o << "/" >> \o named.path \o << ":" >>
                                \o (IF named.tag = << >>
                                    THEN << "l", "a", "t", "e", "s", "t" >>
                                    ELSE named.tag)]]

\* docker.ParseReference: the string must start with "//".  Result: [ok, ref].
ParseReference(s) ==
    IF ~HasPrefix(s, << "/", "/" >>) THEN NoReference
    ELSE TaggedReference(ParseNormalizedNamed(TrimPrefix(s, << "/", "/" >>)))

\* directory.Transport.ParseReference: any path is accepted and kept as given
DirReference(p) == [transport |-> "dir", name |-> p]

(***************************************************************************)
(* Registry enumerator.  A registry answers a tag listing with             *)
(* [kind |-> "ok", tags |-> the tags], [kind |-> "unauthorized"] or        *)
(* [kind |-> "error"]; docker.GetRepositoryTags returns no tags with an    *)
(* error.                                                                  *)
(***************************************************************************)
\* mutant of getImageTags: the unauthorized answer is an error like any
\* other
getImageTagsFailsUnauthorized(response) ==
    IF response.kind = "ok" THEN [err |-> FALSE, tags |-> response.tags]
    ELSE [err |-> TRUE, tags |-> << >>]

\* getImageTags: [err, tags]
getImageTags(response) ==
    CASE response.kind = "ok" -> [err |-> FALSE, tags |-> response.tags]
      [] response.kind = "unauthorized" -> [err |-> FALSE, tags |-> << >>]
      [] OTHER -> [err |-> TRUE, tags |-> << >>]

\* the references repoName:tag of the tags, in order
RECURSIVE TagReferences(_, _)
TagReferences(repoName, tags) ==
    IF tags = << >> THEN << >>
    ELSE << ParseReference(repoName \o << ":" >> \o Head(tags)) >>
             \o TagReferences(repoName, Tail(tags))

\* lines 218-226: an invalid reference among those of the tags fails the
\* whole repository
ReferencesOrError(parsed) ==
    IF \E k \in 1..Len(parsed) : ~parsed[k].ok
    THEN [err |-> TRUE, refs |-> << >>]
    ELSE [err |-> FALSE, refs |-> [k \in 1..Len(parsed) |-> parsed[k].ref]]

\* lines 213-226
ReferencesOfTags(repoName, listed) ==
    IF listed.err THEN [err |-> TRUE, refs |-> << >>]
    ELSE ReferencesOrError(TagReferences(repoName, listed.tags))

\* imagesToCopyFromRepo: [err, refs]
imagesToCopyFromRepo(repoName, response) ==
    ReferencesOfTags(repoName, getImageTags(response))

TagPresence(named) ==
    [err |-> ~named.ok, tagged |-> named.ok /\ named.tag # << >>]

\* isTagSpecified: [err, tagged]
isTagSpecified(imageName) == TagPresence(ParseNormalizedNamed(imageName))

(***************************************************************************)
(* Directory enumerator.  A source tree is [dirs, markers]: the            *)
(* directories below the root, each a sequence of names, and the           *)
(* directories (the root is << >>) that directly hold a manifest.json.     *)
(***************************************************************************)
ManifestName ==
    << "m", "a", "n", "i", "f", "e", "s", "t", ".", "j", "s", "o", "n" >>

\* the names in directory rel: its sub-directories and its marker file
Entries(rel, tree) ==
    {d[Len(d)] : d \in {e \in tree.dirs :
                            Len(e) = Len(rel) + 1 /\ SubSeq(e, 1, Len(rel)) = rel}}
        \cup (IF rel \in tree.markers THEN {ManifestName} ELSE {})

\* readDirNames: the names of a directory, sorted
RECURSIVE SortedNames(_)
SortedNames(names) ==
    IF names = {} THEN << >>
    ELSE LET least == CHOOSE n \in names :
                          \A other \in names \ {n} : StrLess(n, other)
         IN  << least >> \o SortedNames(names \ {least})

\* filepath.Walk with the function of imagesToCopyFromDir: the entries of a
\* directory are visited in sorted order, a sub-directory is walked when
\* its turn comes, and at a file named manifest.json the reference of its
\* directory is appended and filepath.SkipDir ends the visit of the
\* entries of that directory that are still to come.
RECURSIVE WalkNames(_, _, _, _)
WalkNames(rel, path, names, tree) ==
    IF names = << >> THEN << >>
    ELSE LET name == Head(names)
             filename == PathJoin(path, name)
         IN  IF name = ManifestName
             THEN << DirReference(Dir(filename)) >>
             ELSE WalkNames(Append(rel, name), filename,
                            SortedNames(Entries(Append(rel, name), tree)), tree)
                      \o WalkNames(rel, path, Tail(names), tree)

\* imagesToCopyFromDir
imagesToCopyFromDir(dirPath, tree) ==
    WalkNames(<< >>, dirPath, SortedNames(Entries(<< >>, tree)), tree)

(***************************************************************************)
(* Tag selector resolver.  The value of an image in cfg.Images is          *)
(* [type |-> "nil"], [type |-> "list", val |-> elements],                  *)
(* [type |-> "string", val |-> regular expression] or a value of another   *)
(* type; a list element is [type, val] with type the Go type yaml gives    *)
(* it (a float64's val is the number in tenths).                           *)
(***************************************************************************)
\* fmt.Sprintf("%v", tagValue)
FormatValue(e) ==
    CASE e.type = "string" -> e.val
      [] e.type = "int" -> Decimal(e.val)
      [] e.type = "float64" ->
             IF e.val % 10 = 0 THEN Decimal(e.val \div 10)
             ELSE Decimal(e.val \div 10) \o << "." >> \o Decimal(e.val % 10)

\* mutant of TagList: an element of another type ends the list
RECURSIVE TagListStopsAtInvalid(_)
TagListStopsAtInvalid(elems) ==
    IF elems = << >> THEN << >>
    ELSE IF Head(elems).type \in {"string", "int", "float64"}
    THEN << FormatValue(Head(elems)) >> \o TagListStopsAtInvalid(Tail(elems))
    ELSE << >>

\* lines 287-299: the elements of type string, int or float64 as strings,
\* in order; any other element is skipped.
RECURSIVE TagList(_)
TagList(elems) ==
    IF elems = << >> THEN << >>
    ELSE (IF Head(elems).type \in {"string", "int", "float64"}
          THEN << FormatValue(Head(elems)) >> ELSE << >>)
             \o TagList(Tail(elems))

\* the reference when it is valid
IfValid(parsed) == IF parsed.ok THEN << parsed.ref >> ELSE << >>

\* lines 307-319: the references of the tags that parse, in order
RECURSIVE ListReferences(_, _)
ListReferences(repoName, tagList) ==
    IF tagList = << >> THEN << >>
    ELSE IfValid(ParseReference(repoName \o << ":" >> \o Head(tagList)))
             \o ListReferences(repoName, Tail(tagList))

\* regexp.Compile on the expressions of the model: an optional leading '^'
\* and literal characters; an unclosed '(' does not compile.
\* Result: [ok, anchored, literal].
Compile(expr) ==
    LET anchored == expr # << >> /\ expr[1] = "^"
    IN  [ok |-> ~Contains(expr, "("),
         anchored |-> anchored,
         literal |-> IF anchored THEN Tail(expr) ELSE expr]

\* (*Regexp).Match: the literal at the start of the text when anchored,
\* anywhere in it otherwise
Match(re, text) ==
    IF re.anchored THEN HasPrefix(text, re.literal)
    ELSE \E k \in 0..Len(text) :
             HasPrefix(SubSeq(text, k + 1, Len(text)), re.literal)

\* line 389: what the expression is matched against, element [1] (counting
\* from 0) of the reference string split at ':'
MatchedText(ref) == Split(ref.name, ":")[2]

\* lines 387-392: the references whose matched text matches, in order
RECURSIVE FilterReferences(_, _)
FilterReferences(re, refs) ==
    IF refs = << >> THEN << >>
    ELSE (IF Match(re, MatchedText(Head(refs))) THEN << Head(refs) >> ELSE << >>)
             \o FilterReferences(re, Tail(refs))

\* line 267
RepoName(registryName, imageName) ==
    << "/", "/" >> \o PathJoin(registryName, imageName)

Skip(why, listed) ==
    [kind |-> "skip", why |-> why, refs |-> << >>, listed |-> listed]

Resolved(refs, listed) ==
    [kind |-> "resolved", why |-> "", refs |-> refs, listed |-> listed]

\* lines 349-392 with tagReg the compiled expression, imageRef the
\* reference of the repository and all the references of its tags.  When
\* the expression does not compile the error is logged and tagReg is nil:
\* its first use, at the first listed reference, is a nil dereference.
PatternOutcome(tagReg, imageRef, all) ==
    IF ~imageRef.ok THEN Skip("parse", FALSE)
    ELSE IF all.err THEN Skip("list", TRUE)
    ELSE IF ~tagReg.ok
    THEN IF all.refs # << >>
         THEN [kind |-> "panic", why |-> "regexp", refs |-> << >>, listed |-> TRUE]
         ELSE Resolved(<< >>, TRUE)
    ELSE Resolved(FilterReferences(tagReg, all.refs), TRUE)

\* lines 348-392, the case of a string
ResolvePattern(repoName, expr, response) ==
    PatternOutcome(Compile(expr), ParseReference(repoName),
                   imagesToCopyFromRepo(repoName, response))

\* lines 307-346 with tagList the tags of the list, imageRef the reference
\* of the repository and all the references of its tags
ListOutcome(repoName, tagList, imageRef, all) ==
    IF tagList # << >> THEN Resolved(ListReferences(repoName, tagList), FALSE)
    ELSE IF ~imageRef.ok THEN Skip("parse", FALSE)
    ELSE IF all.err THEN Skip("list", TRUE)
    ELSE Resolved(all.refs, TRUE)

\* lines 283-346, the case of a list or of nil
ResolveList(repoName, tags, response) ==
    ListOutcome(repoName,
                IF tags.type = "list" THEN TagList(tags.val) ELSE << >>,
                ParseReference(repoName),
                imagesToCopyFromRepo(repoName, response))

\* lines 283-401: the switch on the type of the value
ResolveTags(repoName, tags, response) ==
    CASE tags.type \in {"list", "nil"} -> ResolveList(repoName, tags, response)
      [] tags.type = "string" -> ResolvePattern(repoName, tags.val, response)
      [] OTHER -> Skip("type", FALSE)

\* lines 403-412: without references the image is skipped, with some a
\* descriptor of them is appended
Outcome(r) ==
    IF r.kind = "resolved"
    THEN IF r.refs = << >>
         THEN [r EXCEPT !.kind = "skip", !.why = "notags"]
         ELSE [r EXCEPT !.kind = "append"]
    ELSE r

\* lines 267-412: the body of the loop of imagesToCopyFromRegistry for one
\* image.  Result: [kind, why, refs, listed], kind "append" (a descriptor
\* of refs is appended), "skip" (the loop continues with the next image;
\* why names the cause) or "panic"; listed tells whether the registry was
\* asked for the tags.
ResolveImage(registryName, imageName, tags, response) ==
    Outcome(ResolveTags(RepoName(registryName, imageName), tags, response))

(***************************************************************************)
(* Destination resolver.                                                   *)
(***************************************************************************)
\* mutant of ScopedSuffix: the empty suffix is kept
ScopedSuffixKeepsEmpty(ref, dirBasePath) ==
    IF ref.transport = "docker" THEN ref.name
    ELSE TrimPrefix(ref.name, dirBasePath)

\* lines 574-585: the suffix before the scoping flag is applied
ScopedSuffix(ref, dirBasePath) ==
    IF ref.transport = "docker" THEN ref.name
    ELSE LET trimmed == TrimPrefix(ref.name, dirBasePath)
         IN  IF trimmed = << >> THEN Base(dirBasePath) ELSE trimmed

\* mutant of DestSuffix: the scoping flag is not looked at
DestSuffixAlwaysScoped(ref, dirBasePath, scoped) ==
    ScopedSuffix(ref, dirBasePath)

\* lines 587-589
DestSuffix(ref, dirBasePath, scoped) ==
    IF ~scoped THEN Base(ScopedSuffix(ref, dirBasePath))
    ELSE ScopedSuffix(ref, dirBasePath)

\* the path and the directories above it, as os.MkdirAll creates them
RECURSIVE WithParents(_)
WithParents(p) ==
    IF p = << "/" >> \/ p = << "." >> THEN {p}
    ELSE {p} \cup WithParents(Dir(p))

\* mutant of Exists: os.Stat never finds the destination
ExistsNever(destination, fs) == FALSE

\* lines 140-143: os.Stat finds the destination
Exists(destination, fs) == destination \in fs

\* lines 136-138 and 158-163, a docker destination
DockerDestination(parsed, fs) ==
    [err |-> IF parsed.ok THEN "" ELSE "destParse", fs |-> fs,
     name |-> parsed.ref.name]

\* destinationReference: [err, fs, name]; fs is the destination
\* filesystem afterwards, io the outcome of the system calls on a path that
\* does not exist yet ("ok", "statError", "mkdirError").
destinationReference(destination, transport, fs, io) ==
    CASE transport = "docker" ->
             DockerDestination(ParseReference(<< "/", "/" >> \o destination), fs)
      [] transport = "dir" ->
             IF Exists(destination, fs)
             THEN [err |-> "refuse", fs |-> fs, name |-> destination]
             ELSE IF io = "statError"
             THEN [err |-> "destStat", fs |-> fs, name |-> destination]
             ELSE IF io = "mkdirError"
             THEN [err |-> "mkdir", fs |-> fs, name |-> destination]
             ELSE [err |-> "", fs |-> fs \cup WithParents(destination),
                   name |-> destination]
      [] OTHER -> [err |-> "transport", fs |-> fs, name |-> destination]

(***************************************************************************)
(* Execution contexts.  A types.SystemContext is modelled by the fields    *)
(* sync sets; a types.OptionalBool is "undefined" (the zero value), "true" *)
(* or "false"; DockerAuthConfig is << >> for a nil pointer and otherwise   *)
(* << the value pointed to >>.  The contexts live in a heap, a sequence    *)
(* indexed by address.                                                     *)
(***************************************************************************)
\* types.NewOptionalBool
NewOptionalBool(b) == IF b THEN "true" ELSE "false"

\* mutant of UnmarshalYAML: the value of the key is not negated
UnmarshalYAMLNotNegated(verify) == [skip |-> NewOptionalBool(verify)]

\* tlsVerifyConfig.UnmarshalYAML with verify the boolean of the key
UnmarshalYAML(verify) == [skip |-> NewOptionalBool(~verify)]

\* the TLSVerify field after yaml.Unmarshal: UnmarshalYAML is called only
\* for a key that is present, otherwise the field keeps its zero value
TLSVerifyField(key) ==
    IF key = "absent" THEN [skip |-> "undefined"] ELSE UnmarshalYAML(key = "true")

\* the registrySyncConfig yaml.Unmarshal gives for an entry of the file
RegistrySyncConfig(entry) ==
    [Images |-> entry.Images, Credentials |-> entry.Credentials,
     TLSVerify |-> TLSVerifyField(entry.TLSVerify), CertDir |-> entry.CertDir]

\* lines 275-279: the per-registry options written through serverCtx; the
\* other fields of the context (AuthFilePath stands for them) are left
\* alone
Override(ctx, cfg) ==
    [ctx EXCEPT !.DockerCertPath = cfg.CertDir,
                !.DockerDaemonCertPath = cfg.CertDir,
                !.DockerDaemonInsecureSkipTLSVerify = (cfg.TLSVerify.skip = "true"),
                !.DockerInsecureSkipTLSVerify = cfg.TLSVerify.skip,
                !.DockerAuthConfig = << cfg.Credentials >>]

\* the address of the context newSystemContext returns (line 542)
BaseCtx == 1

\* mutant of EnterRegistry: the function works on the context of the
\* caller
EnterRegistrySharesContext(h) == [heap |-> h, serverCtx |-> BaseCtx]

\* lines 492, 264 and 273: imagesToCopyFromRegistry is called with
\* *sourceCtx, so its parameter is a copy of the context at a new address,
\* and serverCtx is the address of that parameter
EnterRegistry(h) == [heap |-> Append(h, h[BaseCtx]), serverCtx |-> Len(h) + 1]

(***************************************************************************)
(* State.                                                                  *)
(***************************************************************************)
VARIABLES
    opts,          \* syncOptions: [source, destination, scoped]
    args,          \* the two arguments: [source, destination]
    registry,      \* the registries: repository name -> answer to a tag listing
    tree,          \* the directory at args.source: [exists, dirs, markers]
    manifest,      \* the yaml file at args.source: [ok, cfg]
    sysCtx,        \* the context opts.srcImage.newSystemContext() returns
    destFS,        \* the paths that exist on the destination filesystem
    pc,            \* "validate", "plan", "yaml", "run", "done", "failed", "panic"
    err,           \* the error run returns, "" for none
    srcRepoList,   \* the descriptors imagesToCopy has collected
    regsLeft,      \* imagesToCopy: registries of cfg not yet ranged over
    curReg,        \* imagesToCopyFromRegistry: its registry, << >> outside it
    imgsLeft,      \* imagesToCopyFromRegistry: images not yet ranged over
    repoDescList,  \* imagesToCopyFromRegistry: its descriptors
    planLog,       \* what planning did with each manifest entry, in order
    heap,          \* the contexts, by address; heap[BaseCtx] is *sourceCtx of run
    serverCtx,     \* imagesToCopyFromRegistry: its serverCtx, 0 outside it
    i,             \* run: index of the descriptor in srcRepoList
    j,             \* run: index of the image in its descriptor
    imagesNumber,  \* run: images copied
    copyLog        \* the calls of copy.Image, in order

vars == << opts, args, registry, tree, manifest, sysCtx, destFS, pc, err,
           srcRepoList, regsLeft, curReg, imgsLeft, repoDescList, planLog, heap,
           serverCtx, i, j, imagesNumber, copyLog >>

env == << opts, args, registry, tree, manifest, sysCtx >>
planVars == << srcRepoList, regsLeft, curReg, imgsLeft, repoDescList, planLog,
               heap, serverCtx >>
runVars == << i, j, imagesNumber, copyLog, destFS >>

(***************************************************************************)
(* The inputs of a run: the options and arguments of the command, and the  *)
(* registries and files it reads.                                          *)
(***************************************************************************)
Rio == << "r", ".", "i", "o" >>
HostPort == << "h", ":", "5" >>
RegistryNames == {Rio, HostPort}
ImageNames == {<< "a" >>, << "b" >>, << "-" >>}
TagNames == {<< "v", "1" >>, << "5" >>, << "-" >>}
DirNames == {<< "a" >>, << "z" >>}
SourceDirs == {<< "r" >>, << "r", "/" >>, << ".", "/", "r" >>, << "/" >>}
DestRegistry == << "o", ".", "i", "o" >>
DestDir == << "/", "o" >>

Repos == {RepoName(r, n) : r \in RegistryNames, n \in ImageNames}

\* the sequences of at most n distinct elements of S
RECURSIVE DistinctSeqs(_, _)
DistinctSeqs(S, n) ==
    IF n = 0 THEN {<< >>}
    ELSE LET shorter == DistinctSeqs(S, n - 1)
         IN  shorter \cup {Append(p[1], p[2]) :
                               p \in {q \in shorter \X S : q[2] \notin Range(q[1])}}

\* the sequences of at most n elements of S
SeqsUpTo(S, n) == UNION {[1..m -> S] : m \in 0..n}

Unauthorized == [kind |-> "unauthorized", tags |-> << >>]
ListError == [kind |-> "error", tags |-> << >>]
Listing(tags) == [kind |-> "ok", tags |-> tags]
Responses ==
    {Unauthorized, ListError} \cup {Listing(t) : t \in DistinctSeqs(TagNames, MaxTags)}

\* the registries of the runs that do not vary them
DefaultRegistry ==
    [repo \in Repos |->
        CASE repo = RepoName(Rio, << "a" >>) -> Listing(<< << "v", "1" >>, << "5" >> >>)
          [] repo = RepoName(Rio, << "b" >>) -> ListError
          [] repo = RepoName(HostPort, << "a" >>) -> Listing(<< << "5" >>, << "v", "1" >> >>)
          [] OTHER -> Unauthorized]

NoTree == [exists |-> FALSE, dirs |-> {}, markers |-> {}]
NoManifest == [ok |-> FALSE, cfg |-> << >>]

\* the sets of at most n directories closed under taking the parent
RECURSIVE DirSets(_)
DirSets(n) ==
    IF n = 0 THEN {{}}
    ELSE LET smaller == DirSets(n - 1)
         IN  smaller \cup UNION {{t \cup {Append(parent, name)} :
                                      parent \in t \cup {<< >>}, name \in DirNames} :
                                     t \in smaller}

Trees ==
    UNION {{[exists |-> TRUE, dirs |-> d, markers |-> m] :
                m \in SUBSET (d \cup {<< >>})} : d \in DirSets(MaxDirs)}

\* the values of an image of the manifest
Nil == [type |-> "nil"]
Absent == [type |-> "absent"]
Elements ==
    {[type |-> "string", val |-> << "v", "1" >>], [type |-> "string", val |-> << "-" >>],
     [type |-> "int", val |-> 5], [type |-> "float64", val |-> 15],
     [type |-> "bool", val |-> TRUE]}
Patterns ==
    {[type |-> "string", val |-> << "^", "v" >>], [type |-> "string", val |-> << "5" >>],
     [type |-> "string", val |-> << "(" >>]}
OtherValue == [type |-> "int", val |-> 5]
AllValues ==
    {Nil, OtherValue} \cup Patterns
        \cup {[type |-> "list", val |-> l] : l \in SeqsUpTo(Elements, MaxList)}
FewValues ==
    {Nil, OtherValue, [type |-> "string", val |-> << "^", "v" >>],
     [type |-> "string", val |-> << "(" >>]}

\* the credentials of a registry entry without the key, and with it
NoCredentials == [Username |-> << >>, Password |-> << >>]
SomeCredentials == [Username |-> << "u" >>, Password |-> << "s" >>]

\* an entry of the file with the images and no other key
EntryOf(images) ==
    [Images |-> images, Credentials |-> NoCredentials, TLSVerify |-> "absent",
     CertDir |-> << >>]

\* the keys of an entry beside the images
EntrySettings ==
    {[Credentials |-> c[1], CertDir |-> c[2], TLSVerify |-> t] :
        c \in {<< NoCredentials, << >> >>, << SomeCredentials, << "/", "c" >> >>},
        t \in {"absent", "true", "false"}}

\* the contexts the options of the command give
DefaultContext ==
    [DockerCertPath |-> << >>, DockerDaemonCertPath |-> << >>,
     DockerDaemonInsecureSkipTLSVerify |-> FALSE,
     DockerInsecureSkipTLSVerify |-> "undefined", DockerAuthConfig |-> << >>,
     AuthFilePath |-> << >>]
SystemContexts ==
    {DefaultContext,
     [DefaultContext EXCEPT !.DockerInsecureSkipTLSVerify = "true",
                            !.DockerDaemonInsecureSkipTLSVerify = TRUE],
     [DefaultContext EXCEPT !.DockerInsecureSkipTLSVerify = "false",
                            !.DockerCertPath = << "/", "b" >>,
                            !.DockerDaemonCertPath = << "/", "b" >>,
                            !.DockerAuthConfig =
                                << [Username |-> << "b" >>, Password |-> << "s" >>] >>,
                            !.AuthFilePath = << "/", "f" >>]}

\* the images of a registry entry: the names chosen not Absent
ImagesOf(choice) ==
    [n \in {m \in DOMAIN choice : choice[m] # Absent} |-> choice[n]]

\* manifests of two registries with up to three images in the first
ManyEntryManifests ==
    {[ok |-> TRUE,
      cfg |-> [r \in RegistryNames |->
                  EntryOf(IF r = Rio THEN ImagesOf(first) ELSE ImagesOf(second))]] :
        first \in {c \in [ImageNames -> FewValues \cup {Absent}] :
                       c[<< "-" >>] \in {Absent, Nil}},
        second \in [{<< "a" >>} -> FewValues \cup {Absent}]}

\* the manifest of one registry with one image
OneEntryManifest(reg, v) ==
    [ok |-> TRUE, cfg |-> [r \in {reg} |-> EntryOf([n \in {<< "a" >>} |-> v])]]

\* manifests of two registries with the image a, all its tags, and their
\* settings
SettingsManifests ==
    {[ok |-> TRUE,
      cfg |-> [r \in RegistryNames |->
                  [Images |-> [n \in {<< "a" >>} |-> Nil],
                   Credentials |-> (IF r = Rio THEN first ELSE second).Credentials,
                   TLSVerify |-> (IF r = Rio THEN first ELSE second).TLSVerify,
                   CertDir |-> (IF r = Rio THEN first ELSE second).CertDir]]] :
        first \in EntrySettings, second \in EntrySettings}

RunOptions ==
    {[source |-> "", destination |-> "docker", scoped |-> b, fs |-> {}] :
        b \in BOOLEAN}
    \cup {[source |-> "", destination |-> "dir", scoped |-> b, fs |-> f] :
              b \in BOOLEAN,
              f \in {{<< "/" >>, DestDir},
                     {<< "/" >>, DestDir, DestDir \o << "/", "a", ":", "v", "1" >>}}}

Input(o, source, sourceArg, reg, t, m) ==
    [opts |-> [source |-> source, destination |-> o.destination, scoped |-> o.scoped],
     args |-> [source |-> sourceArg,
               destination |-> IF o.destination = "dir" THEN DestDir ELSE DestRegistry],
     registry |-> reg, tree |-> t, manifest |-> m, sysCtx |-> DefaultContext,
     destFS |-> o.fs]

DockerInputs ==
    {Input(o, "docker", Rio \o << "/", "a" >>,
           [DefaultRegistry EXCEPT ![RepoName(Rio, << "a" >>)] = resp], NoTree, NoManifest) :
        o \in RunOptions, resp \in Responses}
    \cup {Input(o, "docker", src, DefaultRegistry, NoTree, NoManifest) :
              o \in RunOptions,
              src \in {HostPort \o << "/", "a" >>, Rio \o << "/", "a", ":", "v", "1" >>,
                       << "-" >>}}

DirInputs ==
    {Input(o, "dir", src, DefaultRegistry, t, NoManifest) :
        o \in {x \in RunOptions : x.destination = "docker"},
        src \in SourceDirs, t \in Trees}
    \cup {Input(o, "dir", << "r" >>, DefaultRegistry, NoTree, NoManifest) :
              o \in {x \in RunOptions : x.destination = "docker" /\ x.scoped}}

YamlInputs ==
    {Input(o, "yaml", << "s" >>, DefaultRegistry, NoTree, m) :
        o \in RunOptions, m \in ManyEntryManifests}
    \cup {Input(o, "yaml", << "s" >>,
                [DefaultRegistry EXCEPT ![RepoName(reg, << "a" >>)] = resp],
                NoTree, OneEntryManifest(reg, v)) :
              o \in {x \in RunOptions : x.destination = "docker" /\ x.scoped},
              reg \in RegistryNames, v \in AllValues, resp \in Responses}
    \cup {Input(o, "yaml", << "s" >>, DefaultRegistry, NoTree, NoManifest) :
              o \in {x \in RunOptions : x.destination = "docker" /\ x.scoped}}

\* manifests with settings, under each context of the command
ContextInputs ==
    {[Input(o, "yaml", << "s" >>, DefaultRegistry, NoTree, m) EXCEPT !.sysCtx = c] :
        o \in {x \in RunOptions : x.destination = "docker" /\ x.scoped},
        m \in SettingsManifests, c \in SystemContexts}
    \cup {[Input(o, "docker", Rio \o << "/", "a" >>, DefaultRegistry, NoTree,
                 NoManifest) EXCEPT !.sysCtx = c] :
              o \in {x \in RunOptions : x.destination = "docker" /\ x.scoped},
              c \in SystemContexts}

\* option values that run rejects
RejectedInputs ==
    {[opts |-> [source |-> p[1], destination |-> p[2], scoped |-> FALSE],
      args |-> [source |-> << "r" >>, destination |-> DestDir],
      registry |-> DefaultRegistry, tree |-> NoTree, manifest |-> NoManifest,
      sysCtx |-> DefaultContext, destFS |-> {<< "/" >>, DestDir}] :
        p \in {q \in {"", "oci", "docker", "dir"} \X {"", "oci", "docker", "dir"} :
                  \/ q[1] \in {"", "oci"}
                  \/ q[2] \in {"", "oci"}
                  \/ q[1] = "dir" /\ q[2] = "dir"}}

Inputs ==
    DockerInputs \cup DirInputs \cup YamlInputs \cup ContextInputs \cup RejectedInputs

(***************************************************************************)
(* Init: run is entered with its options and arguments.                    *)
(***************************************************************************)
Init ==
    \E in \in Inputs :
        /\ opts = in.opts
        /\ args = in.args
        /\ registry = in.registry
        /\ tree = in.tree
        /\ manifest = in.manifest
        /\ sysCtx = in.sysCtx
        /\ destFS = in.destFS
        /\ pc = "validate"
        /\ err = ""
        /\ srcRepoList = << >>
        /\ regsLeft = {}
        /\ curReg = << >>
        /\ imgsLeft = {}
        /\ repoDescList = << >>
        /\ planLog = << >>
        /\ heap = << in.sysCtx >>
        /\ serverCtx = 0
        /\ i = 1
        /\ j = 1
        /\ imagesNumber = 0
        /\ copyLog = << >>

\* run returns the error e
Fail(e) == pc' = "failed" /\ err' = e

(***************************************************************************)
(* run, lines 524-540: the transports are validated.                       *)
(***************************************************************************)
ValidateError ==
    IF opts.source = "" THEN "noSource"
    ELSE IF opts.source \notin {"docker", "dir", "yaml"} THEN "badSource"
    ELSE IF opts.destination = "" THEN "noDestination"
    ELSE IF opts.destination \notin {"docker", "dir"} THEN "badDestination"
    ELSE IF opts.source = opts.destination /\ opts.source = "dir" THEN "dirToDir"
    ELSE ""

Validate ==
    /\ pc = "validate"
    /\ IF ValidateError = "" THEN pc' = "plan" /\ err' = err
       ELSE Fail(ValidateError)
    /\ UNCHANGED << env, planVars, runVars >>

(***************************************************************************)
(* imagesToCopy.                                                           *)
(***************************************************************************)
\* a repoDescriptor; Context is the address of its context
Descriptor(dirBasePath, refs, context) ==
    [DirBasePath |-> dirBasePath, TaggedImages |-> refs, Context |-> context]

Fatal(e) == [err |-> e, descriptors |-> << >>]

Planned(descriptor) == [err |-> "", descriptors |-> << descriptor >>]

\* lines 433-458 with srcRef the reference of the source, tagged the
\* answer of isTagSpecified and found that of imagesToCopyFromRepo
DockerPlan(srcRef, tagged, found) ==
    IF ~srcRef.ok THEN Fatal("parse")
    ELSE IF tagged.err THEN Fatal("parse")
    ELSE IF tagged.tagged THEN Planned(Descriptor(<< >>, << srcRef.ref >>, BaseCtx))
    ELSE IF found.err THEN Fatal("list")
    ELSE IF Len(found.refs) = 0 THEN Fatal("noImages")
    ELSE Planned(Descriptor(<< >>, found.refs, BaseCtx))

\* lines 427-458, a docker source: [err, descriptors]
PlanDockerResult(source, response) ==
    DockerPlan(ParseReference(<< "/", "/" >> \o source), isTagSpecified(source),
               imagesToCopyFromRepo(<< "/", "/" >> \o source, response))

\* imagesToCopy returns r to run (lines 548-551)
PlanReturns(r) ==
    /\ srcRepoList' = r.descriptors
    /\ IF r.err = "" THEN pc' = "run" /\ err' = err ELSE Fail(r.err)

\* the answer of the registry for a repository; the registry has no
\* repository of an invalid name
Answer(repoName) ==
    IF repoName \in DOMAIN registry THEN registry[repoName] ELSE ListError

PlanDocker ==
    /\ pc = "plan"
    /\ opts.source = "docker"
    /\ PlanReturns(PlanDockerResult(args.source,
                                    Answer(<< "/", "/" >> \o args.source)))
    /\ UNCHANGED << env, regsLeft, curReg, imgsLeft, repoDescList, planLog, heap,
                    serverCtx, runVars >>

\* lines 470-477 with found the answer of imagesToCopyFromDir
DirPlan(source, found) ==
    IF Len(found) = 0 THEN Fatal("noImages")
    ELSE Planned(Descriptor(source, found, BaseCtx))

\* lines 460-477, a dir source: [err, descriptors]
PlanDirResult(source, t) ==
    IF ~t.exists THEN Fatal("stat")
    ELSE DirPlan(source, imagesToCopyFromDir(source, t))

PlanDir ==
    /\ pc = "plan"
    /\ opts.source = "dir"
    /\ PlanReturns(PlanDirResult(args.source, tree))
    /\ UNCHANGED << env, regsLeft, curReg, imgsLeft, repoDescList, planLog, heap,
                    serverCtx, runVars >>

\* lines 479-483: the manifest is read; a file that does not unmarshal is
\* fatal.
PlanYaml ==
    /\ pc = "plan"
    /\ opts.source = "yaml"
    /\ IF manifest.ok
       THEN /\ pc' = "yaml"
            /\ err' = err
            /\ regsLeft' = DOMAIN manifest.cfg
       ELSE /\ Fail("manifest")
            /\ regsLeft' = regsLeft
    /\ UNCHANGED << env, srcRepoList, curReg, imgsLeft, repoDescList, planLog, heap,
                    serverCtx, runVars >>

\* what planning records about one entry of the manifest
Event(registryName, imageName, outcome, context) ==
    [registry |-> registryName, image |-> imageName, kind |-> outcome.kind,
     why |-> outcome.why, refs |-> outcome.refs, listed |-> outcome.listed,
     ctx |-> context]

\* lines 484-492: the range over cfg takes a registry, in any order; one
\* without images is skipped, for any other imagesToCopyFromRegistry is
\* entered.
YamlRegistry ==
    /\ pc = "yaml"
    /\ curReg = << >>
    /\ \E registryName \in regsLeft :
           /\ regsLeft' = regsLeft \ {registryName}
           /\ IF DOMAIN manifest.cfg[registryName].Images = {}
              THEN /\ planLog' = Append(planLog,
                                        Event(registryName, << >>,
                                              [kind |-> "skip", why |-> "noimages",
                                               refs |-> << >>, listed |-> FALSE],
                                              0))
                   /\ UNCHANGED << curReg, imgsLeft, heap, serverCtx >>
              ELSE /\ curReg' = registryName
                   /\ imgsLeft' = DOMAIN manifest.cfg[registryName].Images
                   /\ planLog' = planLog
                   /\ heap' = EnterRegistry(heap).heap
                   /\ serverCtx' = EnterRegistry(heap).serverCtx
    /\ repoDescList' = << >>
    /\ UNCHANGED << env, pc, err, srcRepoList, runVars >>

\* mutant of AfterImage: an image that is skipped ends the enumeration
AfterImageStopsAtSkip(outcome) ==
    IF outcome.kind \in {"panic", "skip"} THEN "panic" ELSE "next"

\* what the loop of imagesToCopyFromRegistry does after the body for one
\* image: "next" (the loop goes on: a continue, or the append of lines
\* 410-412) or "panic" (the goroutine panics and the process ends)
AfterImage(outcome) == IF outcome.kind = "panic" THEN "panic" ELSE "next"

\* lines 273-279 and 403-413 for the image imageName with the outcome of
\* its body: the options of the registry are written to the context at
\* serverCtx before the tags are resolved
ImageDone(imageName, outcome) ==
    /\ imgsLeft' = imgsLeft \ {imageName}
    /\ heap' = [heap EXCEPT ![serverCtx] =
                    Override(heap[serverCtx], RegistrySyncConfig(manifest.cfg[curReg]))]
    /\ planLog' = Append(planLog, Event(curReg, imageName, outcome, serverCtx))
    /\ repoDescList' =
           IF outcome.kind = "append"
           THEN Append(repoDescList, Descriptor(<< >>, outcome.refs, serverCtx))
           ELSE repoDescList
    /\ pc' = IF AfterImage(outcome) = "panic" THEN "panic" ELSE pc

\* lines 266-413: the range over cfg.Images takes an image, in any order
YamlImage ==
    /\ pc = "yaml"
    /\ curReg # << >>
    /\ \E imageName \in imgsLeft :
           ImageDone(imageName,
                     ResolveImage(curReg, imageName,
                                  manifest.cfg[curReg].Images[imageName],
                                  Answer(RepoName(curReg, imageName))))
    /\ UNCHANGED << env, err, srcRepoList, regsLeft, curReg, serverCtx, runVars >>

\* lines 415 and 492-496: imagesToCopyFromRegistry returns its descriptors
\* and a nil error, the descriptors are appended to those of imagesToCopy
YamlRegistryDone ==
    /\ pc = "yaml"
    /\ curReg # << >>
    /\ imgsLeft = {}
    /\ srcRepoList' = srcRepoList \o repoDescList
    /\ curReg' = << >>
    /\ repoDescList' = << >>
    /\ serverCtx' = 0
    /\ UNCHANGED << env, pc, err, regsLeft, imgsLeft, planLog, heap, runVars >>

\* line 500: imagesToCopy returns the descriptors and a nil error
YamlDone ==
    /\ pc = "yaml"
    /\ curReg = << >>
    /\ regsLeft = {}
    /\ pc' = "run"
    /\ UNCHANGED << env, err, planVars, runVars >>

(***************************************************************************)
(* run, lines 570-610: the sync executor.                                  *)
(***************************************************************************)
\* mutant of AfterCopy: the error of copy.Image is ignored
AfterCopyIgnoresError(copied) == "next"

\* lines 601-604: what run does when copy.Image has returned: "next" (the
\* image is counted and the loop goes on) or "return" (run returns the
\* error)
AfterCopy(copied) == IF copied THEN "next" ELSE "return"

\* lines 596-606 with destRef the answer of destinationReference: the call
\* of copy.Image is logged with whether the destination existed before
\* destinationReference was called
CopyImage(ref, destSuffix, destination, destRef, last, copied) ==
    /\ destFS' = destRef.fs
    /\ IF destRef.err # ""
       THEN /\ copied
            /\ Fail(destRef.err)
            /\ UNCHANGED << i, j, imagesNumber, copyLog >>
       ELSE /\ copyLog' = Append(copyLog,
                                 [i |-> i, j |-> j, src |-> ref,
                                  suffix |-> destSuffix, path |-> destination,
                                  dest |-> destRef.name,
                                  existed |-> destination \in destFS,
                                  copied |-> copied])
            /\ IF AfterCopy(copied) = "next"
               THEN /\ imagesNumber' = imagesNumber + 1
                    /\ i' = IF last THEN i + 1 ELSE i
                    /\ j' = IF last THEN 1 ELSE j + 1
                    /\ UNCHANGED << pc, err >>
               ELSE /\ Fail("copy")
                    /\ UNCHANGED << i, j, imagesNumber >>

\* line 591
ResolveAndCopy(ref, destSuffix, destination, last, copied, io) ==
    CopyImage(ref, destSuffix, destination,
              destinationReference(destination, opts.destination, destFS, io),
              last, copied)

\* lines 573-591
TransferTo(ref, destSuffix, last, copied, io) ==
    ResolveAndCopy(ref, destSuffix, PathJoin(args.destination, destSuffix),
                   last, copied, io)

\* lines 572-606: the body of the loops for the image at index k of srcRepo
Transfer(srcRepo, k, copied, io) ==
    TransferTo(srcRepo.TaggedImages[k],
               DestSuffix(srcRepo.TaggedImages[k], srcRepo.DirBasePath, opts.scoped),
               k = Len(srcRepo.TaggedImages), copied, io)

\* lines 570-607: one turn of the loops, for the image j of descriptor i;
\* copied is whether copy.Image succeeds, io the outcome of the system
\* calls of destinationReference.
RunImage ==
    /\ pc = "run"
    /\ i <= Len(srcRepoList)
    /\ \E copied \in BOOLEAN, io \in {"ok", "statError", "mkdirError"} :
           /\ opts.destination = "docker" => io = "ok"
           /\ Transfer(srcRepoList[i], j, copied, io)
    /\ UNCHANGED << env, planVars >>

\* lines 609-610
RunDone ==
    /\ pc = "run"
    /\ i > Len(srcRepoList)
    /\ pc' = "done"
    /\ UNCHANGED << env, err, planVars, runVars >>

Next ==
    \/ Validate
    \/ PlanDocker
    \/ PlanDir
    \/ PlanYaml
    \/ YamlRegistry
    \/ YamlImage
    \/ YamlRegistryDone
    \/ YamlDone
    \/ RunImage
    \/ RunDone

Spec == Init /\ [][Next]_vars

(***************************************************************************)
(* Properties.                                                             *)
(***************************************************************************)
Last(seq) == seq[Len(seq)]

\* imagesToCopy has returned its descriptors without an error
PlanReturned ==
    \/ pc \in {"run", "done"}
    \/ pc = "failed" /\ err \in {"refuse", "destStat", "mkdir", "destParse", "copy"}

\* the images of the descriptors in the order of the loops of run, as
\* pairs of indices
RECURSIVE ImagesFrom(_, _)
ImagesFrom(descriptors, k) ==
    IF k > Len(descriptors) THEN << >>
    ELSE [m \in 1..Len(descriptors[k].TaggedImages) |-> << k, m >>]
             \o ImagesFrom(descriptors, k + 1)

\* C1: copy.Image is called for the images in the order of the descriptors
\* and, within a descriptor, of its images, one call per image; every call
\* but the last one made has succeeded, so that after a call that failed
\* none is made; when the last call failed run has returned its error;
\* the number of images copied is that of the calls that succeeded; and on
\* a dir destination the directory of every call made, the failed one
\* included, exists.
C1_CopyInOrderUntilError ==
    LET order == ImagesFrom(srcRepoList, 1)
    IN  /\ Len(copyLog) <= Len(order)
        /\ \A k \in 1..Len(copyLog) :
               /\ << copyLog[k].i, copyLog[k].j >> = order[k]
               /\ copyLog[k].src = srcRepoList[order[k][1]].TaggedImages[order[k][2]]
               /\ k < Len(copyLog) => copyLog[k].copied
               /\ opts.destination = "dir" => copyLog[k].path \in destFS
        /\ imagesNumber = Cardinality({k \in 1..Len(copyLog) : copyLog[k].copied})
        /\ (copyLog # << >> /\ ~Last(copyLog).copied) => (pc = "failed" /\ err = "copy")
        /\ pc = "done" => Len(copyLog) = Len(order)

\* C1 witness: on a dir destination the second call of copy.Image failed
\* with images still to copy, and the directories of both calls exist.
C1_Witness ==
    /\ opts.destination = "dir"
    /\ pc = "failed"
    /\ err = "copy"
    /\ Len(copyLog) = 2
    /\ Len(ImagesFrom(srcRepoList, 1)) > 2
    /\ copyLog[1].path \in destFS
    /\ copyLog[2].path \in destFS

\* the errors imagesToCopy returns
PlanErrors == {"parse", "list", "noImages", "stat", "manifest"}

\* the entries of the manifest: registry and image
ManifestEntries ==
    UNION {{<< r, n >> : n \in DOMAIN manifest.cfg[r].Images} : r \in DOMAIN manifest.cfg}

\* the descriptors of the events that appended one, in order
RECURSIVE Appended(_)
Appended(log) ==
    IF log = << >> THEN << >>
    ELSE (IF Head(log).kind = "append"
          THEN << Descriptor(<< >>, Head(log).refs, Head(log).ctx) >> ELSE << >>)
             \o Appended(Tail(log))

\* the causes of the recoverable failures of a manifest entry
Recoverable == {"noimages", "parse", "list", "type", "notags"}

\* C2: planning a manifest that unmarshals never returns an error; it ends
\* early only in the panic at an expression that does not compile, never
\* at a recoverable failure; the descriptors collected are at any time
\* those of the entries handled so far that gave references, in order, and
\* a skipped entry has none; and when imagesToCopy has returned, every
\* image of every registry has been handled exactly once, so that each
\* entry that resolves to a tag has its descriptor whatever failed before
\* or after it.
C2_SkipsNeverStopPlanning ==
    (opts.source = "yaml" /\ manifest.ok) =>
        /\ err \notin PlanErrors
        /\ pc = "panic" => Last(planLog).why = "regexp"
        /\ \A k \in 1..Len(planLog) :
               /\ planLog[k].kind = "skip" =>
                      (planLog[k].why \in Recoverable /\ planLog[k].refs = << >>)
               /\ planLog[k].kind = "append" => planLog[k].refs # << >>
        /\ srcRepoList \o repoDescList = Appended(planLog)
        /\ PlanReturned =>
               /\ \A e \in ManifestEntries :
                      Cardinality({k \in 1..Len(planLog) :
                                       /\ planLog[k].registry = e[1]
                                       /\ planLog[k].image = e[2]}) = 1
               /\ \A e \in ManifestEntries :
                      LET outcome == ResolveImage(e[1], e[2],
                                                  manifest.cfg[e[1]].Images[e[2]],
                                                  Answer(RepoName(e[1], e[2])))
                      IN  outcome.kind = "append" =>
                              \E k \in 1..Len(srcRepoList) :
                                  srcRepoList[k].TaggedImages = outcome.refs
               /\ Len(srcRepoList) =
                      Cardinality({e \in ManifestEntries :
                                       ResolveImage(e[1], e[2],
                                                    manifest.cfg[e[1]].Images[e[2]],
                                                    Answer(RepoName(e[1], e[2]))).kind
                                           = "append"})

\* C2 witness: imagesToCopy has returned the descriptor of an image that
\* was handled after an image of an unsupported type, an image whose
\* reference does not parse and an image whose tag listing failed.
C2_Witness ==
    /\ opts.source = "yaml"
    /\ PlanReturned
    /\ Len(srcRepoList) = 1
    /\ Len(planLog) = 4
    /\ {planLog[k].why : k \in 1..3} = {"type", "parse", "list"}
    /\ planLog[4].kind = "append"

\* the value the manifest gives the image of an event
ValueOf(event) == manifest.cfg[event.registry].Images[event.image]

\* the events of the images whose value is an expression
PatternEvents ==
    {k \in 1..Len(planLog) :
        /\ planLog[k].why # "noimages"
        /\ ValueOf(planLog[k]).type = "string"}

\* C3 (the claim as stated, which the code does not meet): an image whose
\* expression does not compile is skipped and contributes no descriptor
\* and no references, whatever tags its repository lists, and planning is
\* not aborted: it never ends in a panic.
C3_InvalidRegexSkipsRepository ==
    (opts.source = "yaml" /\ manifest.ok) =>
        /\ pc # "panic"
        /\ \A k \in PatternEvents :
               ~Compile(ValueOf(planLog[k]).val).ok =>
                   (planLog[k].kind = "skip" /\ planLog[k].refs = << >>)

\* the tag of a tagged docker reference: what follows its last ':'
TagOf(ref) == SubSeq(ref.name, LastIndexOf(ref.name, ":") + 1, Len(ref.name))

\* the references whose tag matches, in order
RECURSIVE MatchingTag(_, _)
MatchingTag(re, refs) ==
    IF refs = << >> THEN << >>
    ELSE (IF Match(re, TagOf(Head(refs))) THEN << Head(refs) >> ELSE << >>)
             \o MatchingTag(re, Tail(refs))

\* C4 (the claim as stated, which the code does not meet): for an image
\* with an expression that compiles, of any registry, a host with a port
\* included, whose tags were listed, the references resolved are exactly
\* the listed references whose tag matches the expression, in listed
\* order.
C4_RegexFiltersOnTag ==
    (opts.source = "yaml" /\ manifest.ok) =>
        \A k \in PatternEvents :
            LET tagReg == Compile(ValueOf(planLog[k]).val)
                all == imagesToCopyFromRepo(
                           RepoName(planLog[k].registry, planLog[k].image),
                           Answer(RepoName(planLog[k].registry, planLog[k].image)))
            IN  (tagReg.ok /\ planLog[k].listed /\ ~all.err) =>
                    planLog[k].refs = MatchingTag(tagReg, all.refs)

\* the marked directories that are not beneath another marked directory
TopMarkers ==
    {d \in tree.markers :
        \A n \in 0..(Len(d) - 1) : SubSeq(d, 1, n) \notin tree.markers}

\* the path of the directory d of the source tree
TreePath(d) == Clean(args.source \o << "/" >> \o JoinWith(d, << "/" >>))

\* C5 (the claim as stated, which the code does not meet): the references
\* imagesToCopyFromDir returns are one for each directory that holds a
\* manifest.json and is not beneath another such directory, and none for
\* any other path.
C5_OneReferencePerImageDirectory ==
    (opts.source = "dir" /\ PlanReturned) =>
        /\ Len(srcRepoList) = 1
        /\ Len(srcRepoList[1].TaggedImages) = Cardinality(TopMarkers)
        /\ {ref.name : ref \in Range(srcRepoList[1].TaggedImages)}
               = {TreePath(d) : d \in TopMarkers}

\* the destination address of the image run is at
CurrentTarget ==
    PathJoin(args.destination,
             DestSuffix(srcRepoList[i].TaggedImages[j], srcRepoList[i].DirBasePath,
                        opts.scoped))

\* run is at an image whose destination directory exists
AtExistingTarget ==
    /\ pc = "run"
    /\ i <= Len(srcRepoList)
    /\ CurrentTarget \in destFS

\* C6: with a dir destination, copy.Image is only ever called on a
\* destination that did not exist when destinationReference was called for
\* that image and that exists, with its parents, when copy.Image is called;
\* no two images of a run are copied to the same path; run returns the
\* refusal only at a destination that exists; and at an image whose
\* destination exists, were it created earlier in the same run, the next
\* step of run is to return the refusal without calling copy.Image.
C6_DirDestinationNeverOverwrites ==
    /\ [](opts.destination = "dir" =>
            /\ \A k \in 1..Len(copyLog) :
                   /\ ~copyLog[k].existed
                   /\ copyLog[k].dest = copyLog[k].path
                   /\ WithParents(copyLog[k].path) \subseteq destFS
                   /\ \A m \in 1..(k - 1) : copyLog[m].path # copyLog[k].path
            /\ (pc = "failed" /\ err = "refuse") => CurrentTarget \in destFS)
    /\ [][(opts.destination = "dir" /\ AtExistingTarget) =>
              (pc' = "failed" /\ err' = "refuse" /\ copyLog' = copyLog
                   /\ destFS' = destFS)]_vars

\* C6 witness: run has refused the destination of an image because an
\* earlier image of the same run, of another repository, was copied to the
\* same address.
C6_Witness ==
    /\ opts.destination = "dir"
    /\ ~opts.scoped
    /\ pc = "failed"
    /\ err = "refuse"
    /\ \E k \in 1..Len(copyLog) :
           /\ copyLog[k].path = CurrentTarget
           /\ copyLog[k].src # srcRepoList[i].TaggedImages[j]
           /\ copyLog[k].copied

\* the descriptor of an entry of the log of copies
BaseOf(entry) == srcRepoList[entry.i].DirBasePath

\* the entries of the log of copies of images of a dir source
DirCopies == {k \in 1..Len(copyLog) : copyLog[k].src.transport = "dir"}

\* the path without the base path when it starts with it
Stripped(entry) ==
    SubSeq(entry.src.name, Len(BaseOf(entry)) + 1, Len(entry.src.name))

\* the suffix the scoping flag leaves of the suffix whole
Scoping(whole) == IF opts.scoped THEN whole ELSE Base(whole)

\* C7 (the claim as stated, refuted): the suffix of an image of a dir
\* source is its path without the base path, and the leaf name of the base
\* path when the path does not start with the base path or nothing is left
\* of it.
C7_SuffixFallsBackToLeafName ==
    \A k \in DirCopies :
        copyLog[k].suffix =
            Scoping(IF HasPrefix(copyLog[k].src.name, BaseOf(copyLog[k]))
                       /\ Stripped(copyLog[k]) # << >>
                    THEN Stripped(copyLog[k])
                    ELSE Base(BaseOf(copyLog[k])))

\* C7 (amended): the suffix of an image of a dir source is its path without
\* the base path when the path starts with the base path and more follows,
\* the leaf name of the base path when the path is the base path, and the
\* whole path when it does not start with the base path; it is never
\* empty.
C7_SuffixStripsBasePath ==
    \A k \in DirCopies :
        /\ copyLog[k].suffix # << >>
        /\ copyLog[k].suffix =
               Scoping(IF ~HasPrefix(copyLog[k].src.name, BaseOf(copyLog[k]))
                       THEN copyLog[k].src.name
                       ELSE IF Stripped(copyLog[k]) = << >>
                       THEN Base(BaseOf(copyLog[k]))
                       ELSE Stripped(copyLog[k]))

\* C7 witness: an image whose path does not start with the base path has
\* been copied with its whole path as suffix, after an image below it.
C7_Witness ==
    /\ opts.scoped
    /\ Len(copyLog) = 2
    /\ \A k \in 1..2 :
           /\ copyLog[k].src.transport = "dir"
           /\ ~HasPrefix(copyLog[k].src.name, BaseOf(copyLog[k]))
           /\ copyLog[k].suffix = copyLog[k].src.name
    /\ copyLog[2].suffix = Base(BaseOf(copyLog[2]))

\* the suffix of an entry before the scoping flag is applied
WholeSuffix(entry) == ScopedSuffix(entry.src, BaseOf(entry))

\* last is what follows the last separator of whole, the separators at its
\* end aside
IsFinalComponent(last, whole) ==
    /\ last # << >>
    /\ ~Contains(last, "/")
    /\ \E n \in 0..Len(whole) :
           /\ SubSeq(whole, n + 1, n + Len(last)) = last
           /\ n > 0 => whole[n] = "/"
           /\ \A m \in (n + Len(last) + 1)..Len(whole) : whole[m] = "/"

ListEvents ==
    {k \in 1..Len(planLog) :
        /\ planLog[k].why # "noimages"
        /\ ValueOf(planLog[k]).type = "list"}

\* the string of a scalar element of a list, written out
Rendering(e) ==
    CASE e = [type |-> "string", val |-> << "v", "1" >>] -> << "v", "1" >>
      [] e = [type |-> "string", val |-> << "-" >>] -> << "-" >>
      [] e = [type |-> "int", val |-> 5] -> << "5" >>
      [] e = [type |-> "float64", val |-> 15] -> << "1", ".", "5" >>

IsScalar(e) == e.type \in {"string", "int", "float64"}

\* the tag gives a reference of the image of the event
TagParses(event, tag) ==
    ParseReference(RepoName(event.registry, event.image) \o << ":" >> \o tag).ok

\* the reference of the image of the event with the tag
ReferenceOf(event, tag) ==
    [transport |-> "docker",
     name |-> event.registry \o << "/" >> \o event.image \o << ":" >> \o tag]

\* the references of the scalar elements that parse, in order
ExpectedOfList(event, scalars) ==
    LET parsing == SelectSeq(scalars, LAMBDA e : TagParses(event, Rendering(e)))
    IN  [n \in 1..Len(parsing) |-> ReferenceOf(event, Rendering(parsing[n]))]

\* C9: for an image whose value is a list with at least one element of
\* type string, int or float64, the references resolved are those of the
\* strings of these elements that parse, in the order of the list, the
\* elements of other types being passed over, and the registry is not
\* asked for the tags; the image gets its descriptor when there is a
\* reference.
C9_ExplicitTagList ==
    (opts.source = "yaml" /\ manifest.ok) =>
        \A k \in ListEvents :
            LET scalars == SelectSeq(ValueOf(planLog[k]).val, IsScalar)
            IN  scalars # << >> =>
                    /\ ~planLog[k].listed
                    /\ planLog[k].refs = ExpectedOfList(planLog[k], scalars)
                    /\ Len(planLog[k].refs) <= Len(scalars)
                    /\ planLog[k].kind =
                           IF planLog[k].refs = << >> THEN "skip" ELSE "append"

\* C9 witness: imagesToCopy has returned the descriptor of an image whose
\* list starts with an element of another type and goes on with a float.
C9_Witness ==
    /\ opts.source = "yaml"
    /\ PlanReturned
    /\ Len(planLog) = 1
    /\ ValueOf(planLog[1]).type = "list"
    /\ Len(ValueOf(planLog[1]).val) = 2
    /\ ValueOf(planLog[1]).val[1].type = "bool"
    /\ planLog[1].refs = << ReferenceOf(planLog[1], << "1", ".", "5" >>) >>
    /\ Len(srcRepoList) = 1

\* run is past imagesToCopy
PlanOver == pc \notin {"validate", "plan", "yaml"}

\* the source is a docker repository that names no tag
UntaggedDockerSource ==
    /\ opts.source = "docker"
    /\ opts.destination \in {"docker", "dir"}
    /\ ParseReference(<< "/", "/" >> \o args.source).ok
    /\ ~Contains(SubSeq(args.source, LastIndexOf(args.source, "/") + 1,
                        Len(args.source)), ":")

\* what the registry answers for the source
SourceAnswer == Answer(<< "/", "/" >> \o args.source)

\* imagesToCopy has returned one descriptor of the references of the tags
\* listed for the source, in order
OneDescriptorOfAllTags ==
    /\ PlanReturned
    /\ Len(srcRepoList) = 1
    /\ srcRepoList[1].TaggedImages =
           [n \in 1..Len(SourceAnswer.tags) |->
               [transport |-> "docker",
                name |-> args.source \o << ":" >> \o SourceAnswer.tags[n]]]

\* imagesToCopy has returned the error e and no descriptor
PlanFailed(e) == pc = "failed" /\ err = e /\ srcRepoList = << >>

\* C10 (the claim as stated, refuted): for a docker source without a tag,
\* the unauthorized answer is an empty tag list without error and
\* imagesToCopy fails with "no images to sync found" and no descriptor;
\* any listing of n >= 1 tags gives one descriptor of n references.
C10_AnyTagListGivesOneDescriptor ==
    UntaggedDockerSource =>
        /\ getImageTags(Unauthorized) = [err |-> FALSE, tags |-> << >>]
        /\ (PlanOver /\ SourceAnswer.kind = "unauthorized") => PlanFailed("noImages")
        /\ (PlanOver /\ SourceAnswer.kind = "ok" /\ SourceAnswer.tags # << >>) =>
               OneDescriptorOfAllTags

\* C10 (amended): for a docker source without a tag, the unauthorized
\* answer is an empty tag list without error and imagesToCopy fails with
\* "no images to sync found" and no descriptor, as it does for an empty
\* listing; a listing of n >= 1 tags that all give a valid reference gives
\* one descriptor of n references, in listed order; a listing with a tag
\* that gives no valid reference makes imagesToCopy fail with the error of
\* the listing and no descriptor.
C10_ValidTagListGivesOneDescriptor ==
    UntaggedDockerSource =>
        /\ getImageTags(Unauthorized) = [err |-> FALSE, tags |-> << >>]
        /\ (PlanOver /\ SourceAnswer.kind = "unauthorized") => PlanFailed("noImages")
        /\ (PlanOver /\ SourceAnswer.kind = "ok" /\ SourceAnswer.tags = << >>) =>
               PlanFailed("noImages")
        /\ (PlanOver /\ SourceAnswer.kind = "ok" /\ SourceAnswer.tags # << >>) =>
               IF \A n \in 1..Len(SourceAnswer.tags) : ValidTag(SourceAnswer.tags[n])
               THEN OneDescriptorOfAllTags
               ELSE PlanFailed("list")

\* C10 witness: run has failed with "no images to sync found" for a source
\* without a tag whose registry answers unauthorized.
C10_Witness ==
    /\ UntaggedDockerSource
    /\ SourceAnswer.kind = "unauthorized"
    /\ getImageTags(SourceAnswer) = [err |-> FALSE, tags |-> << >>]
    /\ pc = "failed"
    /\ err = "noImages"
    /\ srcRepoList = << >>

\* the descriptors collected so far, those of the registry being ranged
\* over included
Collected == srcRepoList \o repoDescList

\* the registry of a descriptor of a manifest source: the host of its
\* references
RegistryOf(descriptor) ==
    CHOOSE r \in DOMAIN manifest.cfg :
        HasPrefix(descriptor.TaggedImages[1].name, r \o << "/" >>)

\* the tls-verify key of the entry a descriptor came from
KeyOf(descriptor) == manifest.cfg[RegistryOf(descriptor)].TLSVerify

\* the context skips TLS verification
Skips(ctx) ==
    ctx.DockerInsecureSkipTLSVerify = "true" \/ ctx.DockerDaemonInsecureSkipTLSVerify

\* C11: the context of every descriptor of a manifest entry skips TLS
\* verification exactly when the entry sets tls-verify to false, whatever
\* the context of the command says: with the key true the context holds
\* the explicit "do not skip", with the key absent it holds the unset
\* value, which is not "skip", and the daemon flag is off in both cases.
C11_TLSVerifiedUnlessFalse ==
    (opts.source = "yaml" /\ manifest.ok) =>
        \A k \in 1..Len(Collected) :
            LET ctx == heap[Collected[k].Context]
                key == KeyOf(Collected[k])
            IN  /\ Skips(ctx) <=> key = "false"
                /\ key = "false" => (/\ ctx.DockerInsecureSkipTLSVerify = "true"
                                     /\ ctx.DockerDaemonInsecureSkipTLSVerify)
                /\ key = "true" => ctx.DockerInsecureSkipTLSVerify = "false"
                /\ key = "absent" => ctx.DockerInsecureSkipTLSVerify = "undefined"

\* C11 witness: under a command context that skips verification,
\* imagesToCopy has returned the descriptors of an entry without the key,
\* whose context does not skip, and of an entry with the key false, whose
\* context skips.
C11_Witness ==
    /\ opts.source = "yaml"
    /\ PlanReturned
    /\ Skips(sysCtx)
    /\ Len(srcRepoList) = 2
    /\ KeyOf(srcRepoList[1]) = "absent"
    /\ ~Skips(heap[srcRepoList[1].Context])
    /\ KeyOf(srcRepoList[2]) = "false"
    /\ Skips(heap[srcRepoList[2].Context])

\* the TLS mode of an entry by its tls-verify key, written out
ModeOf(key) ==
    CASE key = "absent" -> "undefined"
      [] key = "true" -> "false"
      [] key = "false" -> "true"

\* the context holds the settings of the entry and, for the rest, what the
\* context of the command holds
CarriesSettings(ctx, entry) ==
    /\ ctx.DockerAuthConfig = << entry.Credentials >>
    /\ ctx.DockerCertPath = entry.CertDir
    /\ ctx.DockerDaemonCertPath = entry.CertDir
    /\ ctx.DockerInsecureSkipTLSVerify = ModeOf(entry.TLSVerify)
    /\ ctx.DockerDaemonInsecureSkipTLSVerify = (entry.TLSVerify = "false")
    /\ ctx.AuthFilePath = sysCtx.AuthFilePath

\* C12: while a manifest source is planned and after imagesToCopy has
\* returned, the context of the command is what it was before; the
\* context of every descriptor is another context than that of the
\* command and holds the credentials, the TLS mode and the certificate
\* directory of the registry entry the descriptor came from, whatever
\* registries were handled before or after it; descriptors of different
\* registries do not share their context.
C12_ContextsNeverLeak ==
    (opts.source = "yaml" /\ manifest.ok) =>
        /\ heap[BaseCtx] = sysCtx
        /\ \A k \in 1..Len(Collected) :
               /\ Collected[k].Context # BaseCtx
               /\ CarriesSettings(heap[Collected[k].Context],
                                  manifest.cfg[RegistryOf(Collected[k])])
               /\ \A m \in 1..Len(Collected) :
                      RegistryOf(Collected[m]) # RegistryOf(Collected[k]) =>
                          Collected[m].Context # Collected[k].Context

\* C12 witness: imagesToCopy has returned the descriptors of two
\* registries with different settings, both different from those of the
\* command, which still holds its own.
C12_Witness ==
    /\ opts.source = "yaml"
    /\ PlanReturned
    /\ Len(srcRepoList) = 2
    /\ heap[BaseCtx] = sysCtx
    /\ sysCtx.DockerAuthConfig # << >>
    /\ heap[srcRepoList[1].Context].DockerAuthConfig = << SomeCredentials >>
    /\ heap[srcRepoList[2].Context].DockerAuthConfig = << NoCredentials >>
    /\ heap[srcRepoList[1].Context].DockerCertPath
           # heap[srcRepoList[2].Context].DockerCertPath
    /\ heap[srcRepoList[1].Context].DockerInsecureSkipTLSVerify
           # heap[srcRepoList[2].Context].DockerInsecureSkipTLSVerify

=============================================================================
